---------------------------- MODULE Spec2Model ----------------------------
(***************************************************************************)
(* A model of ColParser (src/js/col-parser.js): the .col blog-format       *)
(* parser.  Text is a sequence of one-character strings; every regular     *)
(* expression of the source is an operator that matches the way the        *)
(* JavaScript engine matches it (leftmost, greedy/lazy, with the           *)
(* backtracking that can change the outcome).  A call of a method is a     *)
(* record of `call'; the instance fields are variables of their own.       *)
(***************************************************************************)
EXTENDS Naturals, Sequences, FiniteSets, TLC

VARIABLES htmlEntities, allowedTags, patterns, call

vars == <<htmlEntities, allowedTags, patterns, call>>

instance == <<htmlEntities, allowedTags, patterns>>

-----------------------------------------------------------------------------
(* Characters and the character classes of JavaScript regular expressions. *)

LowerLetters ==
  <<"a","b","c","d","e","f","g","h","i","j","k","l","m",
    "n","o","p","q","r","s","t","u","v","w","x","y","z">>

UpperLetters ==
  <<"A","B","C","D","E","F","G","H","I","J","K","L","M",
    "N","O","P","Q","R","S","T","U","V","W","X","Y","Z">>

Digits == {"0","1","2","3","4","5","6","7","8","9"}

Range(s) == {s[k] : k \in 1..Len(s)}

\* \w
IsWordChar(c) == c \in Range(LowerLetters) \cup Range(UpperLetters) \cup Digits \cup {"_"}

\* \s (and the characters String.prototype.trim removes)
IsSpace(c) == c \in {" ", "\n", "\t", "\r", "\f"}

\* the characters `.' does not match
IsLineTerminator(c) == c \in {"\n", "\r"}

\* \d
IsDigit(c) == c \in Digits

\* String.prototype.toLowerCase, and the folding of the i flag
ToLowerChar(c) ==
  IF \E k \in 1..26 : UpperLetters[k] = c
  THEN LowerLetters[CHOOSE k \in 1..26 : UpperLetters[k] = c]
  ELSE c

toLowerCase(s) == [k \in 1..Len(s) |-> ToLowerChar(s[k])]

\* s.slice(from - 1, to - 1) in 1-based positions: the characters from..to-1
Slice(s, from, to) == IF to <= from THEN <<>> ELSE SubSeq(s, from, to - 1)

\* the literal lit stands in s at position i
LitAt(lit, s, i) ==
  /\ i >= 1
  /\ i + Len(lit) - 1 <= Len(s)
  /\ \A k \in 1..Len(lit) : s[i + k - 1] = lit[k]

\* the same under the i flag
LitAtCI(lit, s, i) ==
  /\ i >= 1
  /\ i + Len(lit) - 1 <= Len(s)
  /\ \A k \in 1..Len(lit) : ToLowerChar(s[i + k - 1]) = ToLowerChar(lit[k])

\* the first position >= i where lit stands, 0 when there is none
IndexOf(lit, s, i) ==
  IF \E k \in i..(Len(s) + 1) : LitAt(lit, s, k)
  THEN CHOOSE k \in i..(Len(s) + 1) :
         LitAt(lit, s, k) /\ \A h \in i..(k - 1) : ~LitAt(lit, s, h)
  ELSE 0

IndexOfCI(lit, s, i) ==
  IF \E k \in i..(Len(s) + 1) : LitAtCI(lit, s, k)
  THEN CHOOSE k \in i..(Len(s) + 1) :
         LitAtCI(lit, s, k) /\ \A h \in i..(k - 1) : ~LitAtCI(lit, s, h)
  ELSE 0

\* the end (exclusive) of the longest run of characters satisfying P from i
RunEnd(s, i, P(_)) ==
  IF \E k \in i..Len(s) : ~P(s[k])
  THEN CHOOSE k \in i..Len(s) : ~P(s[k]) /\ \A h \in i..(k - 1) : P(s[h])
  ELSE Len(s) + 1

\* String.prototype.trim
trim(s) ==
  LET keep == {k \in 1..Len(s) : ~IsSpace(s[k])}
  IN IF keep = {} THEN <<>>
     ELSE LET lo == CHOOSE k \in keep : \A h \in keep : k <= h
              hi == CHOOSE k \in keep : \A h \in keep : k >= h
          IN SubSeq(s, lo, hi)

\* the first position >= i where the regular expression matches, 0 when
\* there is none
NextMatch(s, i, MatchEnd(_,_)) ==
  IF \E k \in i..Len(s) : MatchEnd(s, k) > 0
  THEN CHOOSE k \in i..Len(s) :
         MatchEnd(s, k) > 0 /\ \A h \in i..(k - 1) : MatchEnd(s, h) = 0
  ELSE 0

\* String.prototype.replace with a global regular expression: MatchEnd(s, i)
\* is the end (exclusive) of the match that starts at i, 0 when there is
\* none; the scan resumes after each match, so matches never overlap and the
\* replacement text is not scanned again.
ReplaceAll(s, MatchEnd(_,_), Replacement(_,_,_)) ==
  LET f[i \in 1..(Len(s) + 1)] ==
        \* the result for s from position i on
        LET m == NextMatch(s, i, MatchEnd)
        IN IF m = 0 THEN Slice(s, i, Len(s) + 1)
           ELSE Slice(s, i, m) \o Replacement(s, m, MatchEnd(s, m)) \o f[MatchEnd(s, m)]
  IN f[1]

\* the regular expression matches somewhere in s
HasMatch(s, MatchEnd(_,_)) == \E i \in 1..Len(s) : MatchEnd(s, i) > 0

\* the number of non-overlapping matches a global scan finds
CountMatches(s, MatchEnd(_,_)) ==
  LET f[i \in 1..(Len(s) + 1)] ==
        LET m == NextMatch(s, i, MatchEnd)
        IN IF m = 0 THEN 0 ELSE 1 + f[MatchEnd(s, m)]
  IN f[1]

\* String.prototype.split on a one-character separator
split(s, sep) ==
  LET f[i \in 1..(Len(s) + 1)] ==
        \* the pieces of s from position i on
        LET j == IndexOf(<<sep>>, s, i)
        IN IF j = 0 THEN <<Slice(s, i, Len(s) + 1)>>
           ELSE <<Slice(s, i, j)>> \o f[j + 1]
  IN f[1]

\* Array.prototype.join
join(parts, sep) ==
  LET f[k \in 1..(Len(parts) + 1)] ==
        IF k > Len(parts) THEN <<>>
        ELSE IF k = Len(parts) THEN parts[k]
        ELSE parts[k] \o sep \o f[k + 1]
  IN f[1]

Concat(parts) == join(parts, <<>>)

\* every sequence of at most n elements of S
SeqUpTo(S, n) == UNION {[1..k -> S] : k \in 0..n}

-----------------------------------------------------------------------------
(* The instance: constructor, lines 11-46.                                 *)

\* this.htmlEntities
HtmlEntityTable ==
  [c \in {"&", "<", ">", "\"", "'"} |->
     CASE c = "&"  -> <<"&","a","m","p",";">>
       [] c = "<"  -> <<"&","l","t",";">>
       [] c = ">"  -> <<"&","g","t",";">>
       [] c = "\"" -> <<"&","q","u","o","t",";">>
       [] c = "'"  -> <<"&","#","3","9",";">>]

\* this.allowedTags
AllowedTagSet ==
  {"p", "div", "span", "a", "img", "br", "hr", "em", "strong", "i", "b",
   "ul", "ol", "li", "blockquote", "code", "pre", "h1", "h2", "h3", "h4",
   "h5", "h6", "table", "thead", "tbody", "tr", "th", "td", "preview"}

\* the keys of this.patterns
PatternNames ==
  {"metadata", "preview", "heading", "bold", "italic", "code", "codeBlock",
   "link", "image", "unorderedList", "orderedList", "blockquote",
   "horizontalRule", "lineBreak", "paragraph"}

\* this.patterns: of a RegExp object only lastIndex can change; a global
\* replace or matchAll leaves it 0, a non-global match never writes it.
PatternTable == [n \in PatternNames |-> [global |-> n # "metadata", lastIndex |-> 0]]

InitInstance ==
  /\ htmlEntities = HtmlEntityTable
  /\ allowedTags = AllowedTagSet
  /\ patterns = PatternTable

-----------------------------------------------------------------------------
(* escapeHtml, lines 53-56.                                                *)

\* text.replace(/[&<>"']/g, match => this.htmlEntities[match] || match)
escapeHtmlWith(entities, text) ==
  ReplaceAll(text,
             LAMBDA s, i : IF s[i] \in {"&", "<", ">", "\"", "'"} THEN i + 1 ELSE 0,
             LAMBDA s, i, e : IF s[i] \in DOMAIN entities THEN entities[s[i]] ELSE <<s[i]>>)

-----------------------------------------------------------------------------
(* sanitizeHtml, lines 63-74.                                              *)

ScriptOpen == <<"<","s","c","r","i","p","t">>
ScriptClose == <<"<","/","s","c","r","i","p","t",">">>
JavascriptColon == <<"j","a","v","a","s","c","r","i","p","t",":">>

\* /<script\b[^<]*(?:(?!<\/script>)<[^<]*)*<\/script>/gi at position i.
\* [^<]* runs to the next "<"; there the group (?!<\/script>)<[^<]* is tried
\* first and takes the "<" unless "</script>" stands there, in which case
\* only the closing literal can match.  No shorter [^<]* helps: what follows
\* it must start with "<".
ScriptMatchEnd(s, i) ==
  IF ~LitAtCI(ScriptOpen, s, i) THEN 0
  ELSE LET a == i + Len(ScriptOpen)
       IN IF a <= Len(s) /\ IsWordChar(s[a]) THEN 0   \* \b
          ELSE LET scan[p \in a..(Len(s) + 1)] ==
                     LET q == RunEnd(s, p, LAMBDA c : c # "<")
                     IN IF q > Len(s) THEN 0
                        ELSE IF LitAtCI(ScriptClose, s, q)
                             THEN q + Len(ScriptClose)
                             ELSE scan[q + 1]
               IN scan[a]

\* /\son\w+\s*=\s*["'][^"']*["']/gi at position i
HandlerMatchEnd(s, i) ==
  IF ~(IsSpace(s[i]) /\ LitAtCI(<<"o","n">>, s, i + 1)) THEN 0
  ELSE LET w == RunEnd(s, i + 3, IsWordChar)
           e == RunEnd(s, w, IsSpace)
       IN IF w = i + 3 \/ e > Len(s) \/ s[e] # "=" THEN 0
          ELSE LET q == RunEnd(s, e + 1, IsSpace)
               IN IF q > Len(s) \/ s[q] \notin {"\"", "'"} THEN 0
                  ELSE LET z == RunEnd(s, q + 1, LAMBDA c : c \notin {"\"", "'"})
                       IN IF z > Len(s) THEN 0 ELSE z + 1

\* /javascript:/gi at position i
JavascriptMatchEnd(s, i) ==
  IF LitAtCI(JavascriptColon, s, i) THEN i + Len(JavascriptColon) ELSE 0

Removed(s, i, e) == <<>>

sanitizeHtml(html) ==
  IF html = <<>> THEN <<>>
  ELSE LET h1 == ReplaceAll(html, ScriptMatchEnd, Removed)
           h2 == ReplaceAll(h1, HandlerMatchEnd, Removed)
       IN ReplaceAll(h2, JavascriptMatchEnd, Removed)

\* a call of sanitizeHtml(html) returns
CallSanitizeHtml(c) ==
  /\ call[c].op = "sanitizeHtml"
  /\ call[c].pc = "called"
  /\ call' = [call EXCEPT ![c].pc = "returned",
                          ![c].ret = sanitizeHtml(call[c].html)]
  /\ UNCHANGED instance

\* The raw HTML handed to sanitizeHtml: up to MaxFragments of these pieces.
MaxFragments == 3

SanitizeFragments ==
  { <<"j","a","v","a">>, <<"s","c","r","i","p","t",":">>, <<"J","a","v","a","S","c","r","i","p","t",":">>, <<"a","l","e","r","t","(","1",")">>,
    <<"<","s","c","r">>, <<"i","p","t",">">>, <<"<","s","c","r","i","p","t",">">>, <<"<","/","S","C","R","I","P","T",">">>,
    <<" ","o","n">>, <<" ","o","n","c","l","i","c","k","=","\"","x","(",")","\"">>, <<"x","=","'","y","'">>, <<"<","p">>, <<">","h","i","<","/","p",">">> }

SanitizeInputs == {Concat(fs) : fs \in SeqUpTo(SanitizeFragments, MaxFragments)}

InitSanitize ==
  /\ InitInstance
  /\ \E html \in SanitizeInputs :
       call = [c \in {1} |-> [op |-> "sanitizeHtml", pc |-> "called",
                              html |-> html, ret |-> <<>>]]

NextSanitize == \E c \in DOMAIN call : CallSanitizeHtml(c)

SpecSanitize == InitSanitize /\ [][NextSanitize]_vars

\* C1: the output of sanitizeHtml holds no <script ...>...</script> element,
\* no quoted on<word>= attribute and no "javascript:" in any letter case.
SanitizeOutputClean ==
  \A c \in DOMAIN call :
    (call[c].op = "sanitizeHtml" /\ call[c].pc = "returned") =>
      /\ ~HasMatch(call[c].ret, ScriptMatchEnd)
      /\ ~HasMatch(call[c].ret, HandlerMatchEnd)
      /\ ~HasMatch(call[c].ret, JavascriptMatchEnd)

-----------------------------------------------------------------------------
(* parseLists, lines 220-269.                                              *)

NoMatch == [ok |-> FALSE, text |-> <<>>]

\* \s+(.+)$ from position m of a line, no flags: \s+ is greedy and gives
\* characters back until (.+) can reach the end of the line; the result is
\* group 1.
ItemText(line, m) ==
  LET w == RunEnd(line, m, IsSpace)
      starts == {k \in (m + 1)..w :
                   /\ k <= Len(line)
                   /\ \A j \in k..Len(line) : ~IsLineTerminator(line[j])}
  IN IF starts = {} THEN NoMatch
     ELSE LET k == CHOOSE x \in starts : \A y \in starts : x >= y
          IN [ok |-> TRUE, text |-> Slice(line, k, Len(line) + 1)]

\* line.match(/^[\s]*[-*+]\s+(.+)$/)
unorderedMatch(line) ==
  LET a == RunEnd(line, 1, IsSpace)
  IN IF a > Len(line) \/ line[a] \notin {"-", "*", "+"} THEN NoMatch
     ELSE ItemText(line, a + 1)

\* line.match(/^[\s]*\d+\.\s+(.+)$/)
orderedMatch(line) ==
  LET a == RunEnd(line, 1, IsSpace)
      d == RunEnd(line, a, IsDigit)
  IN IF d = a \/ d > Len(line) \/ line[d] # "." THEN NoMatch
     ELSE ItemText(line, d + 1)

UlOpen == <<"<","u","l"," ","c","l","a","s","s","=","\"","b","l","o","g","-","l","i","s","t","\"",">">>
UlClose == <<"<","/","u","l",">">>
OlOpen == <<"<","o","l"," ","c","l","a","s","s","=","\"","b","l","o","g","-","l","i","s","t"," ","b","l","o","g","-","o","r","d","e","r","e","d","-","l","i","s","t","\"",">">>
OlClose == <<"<","/","o","l",">">>
ListItem(text) == <<"<","l","i"," ","c","l","a","s","s","=","\"","b","l","o","g","-","l","i","s","t","-","i","t","e","m","\"",">">> \o text \o <<"<","/","l","i",">">>

\* the locals of parseLists before the loop, lines 222-224
ListScanStart == [inUnorderedList |-> FALSE, inOrderedList |-> FALSE, result |-> <<>>]

\* a variant of the loop body that opens a list without closing the other
ListStepNoClose(st, line) ==
  LET u == unorderedMatch(line)
      o == orderedMatch(line)
  IN IF u.ok
     THEN [st EXCEPT !.inUnorderedList = TRUE,
                     !.result = st.result
                                \o (IF st.inUnorderedList THEN <<>> ELSE <<UlOpen>>)
                                \o <<ListItem(u.text)>>]
     ELSE IF o.ok
     THEN [st EXCEPT !.inOrderedList = TRUE,
                     !.result = st.result
                                \o (IF st.inOrderedList THEN <<>> ELSE <<OlOpen>>)
                                \o <<ListItem(o.text)>>]
     ELSE [inUnorderedList |-> FALSE, inOrderedList |-> FALSE,
           result |-> st.result
                      \o (IF st.inUnorderedList THEN <<UlClose>> ELSE <<>>)
                      \o (IF st.inOrderedList THEN <<OlClose>> ELSE <<>>)
                      \o <<line>>]

\* one iteration of the loop, lines 227-261
ListStep(st, line) ==
  LET u == unorderedMatch(line)
      o == orderedMatch(line)
  IN IF u.ok
     THEN IF ~st.inUnorderedList
          THEN [inUnorderedList |-> TRUE, inOrderedList |-> FALSE,
                result |-> st.result
                           \o (IF st.inOrderedList THEN <<OlClose>> ELSE <<>>)
                           \o <<UlOpen, ListItem(u.text)>>]
          ELSE [st EXCEPT !.result = st.result \o <<ListItem(u.text)>>]
     ELSE IF o.ok
     THEN IF ~st.inOrderedList
          THEN [inUnorderedList |-> FALSE, inOrderedList |-> TRUE,
                result |-> st.result
                           \o (IF st.inUnorderedList THEN <<UlClose>> ELSE <<>>)
                           \o <<OlOpen, ListItem(o.text)>>]
          ELSE [st EXCEPT !.result = st.result \o <<ListItem(o.text)>>]
     ELSE [inUnorderedList |-> FALSE, inOrderedList |-> FALSE,
           result |-> st.result
                      \o (IF st.inUnorderedList THEN <<UlClose>> ELSE <<>>)
                      \o (IF st.inOrderedList THEN <<OlClose>> ELSE <<>>)
                      \o <<line>>]

\* lines 264-268: close any open list and join
ListFinish(st) ==
  join(st.result
       \o (IF st.inUnorderedList THEN <<UlClose>> ELSE <<>>)
       \o (IF st.inOrderedList THEN <<OlClose>> ELSE <<>>),
       <<"\n">>)

\* parseLists as one function: the loop run to its end
parseLists(content) ==
  LET lines == split(content, "\n")
      scan[k \in 0..Len(lines)] ==
        IF k = 0 THEN ListScanStart ELSE ListStep(scan[k - 1], lines[k])
  IN ListFinish(scan[Len(lines)])

\* lines 221-224
ParseListsBegin(c) ==
  /\ call[c].op = "parseLists"
  /\ call[c].pc = "called"
  /\ call' = [call EXCEPT ![c].pc = "loop",
                          ![c].lines = split(call[c].content, "\n"),
                          ![c].i = 1,
                          ![c].scan = ListScanStart]
  /\ UNCHANGED instance

\* one iteration, lines 226-262 (i counts from 1 here)
ParseListsLine(c) ==
  /\ call[c].op = "parseLists"
  /\ call[c].pc = "loop"
  /\ call[c].i <= Len(call[c].lines)
  /\ call' = [call EXCEPT ![c].scan = ListStep(call[c].scan, call[c].lines[call[c].i]),
                          ![c].i = call[c].i + 1]
  /\ UNCHANGED instance

\* lines 264-268
ParseListsReturn(c) ==
  /\ call[c].op = "parseLists"
  /\ call[c].pc = "loop"
  /\ call[c].i > Len(call[c].lines)
  /\ call' = [call EXCEPT ![c].pc = "returned",
                          ![c].ret = ListFinish(call[c].scan)]
  /\ UNCHANGED instance

\* The text handed to parseLists: up to MaxLines lines, each an unordered
\* item, an ordered item or neither; each item is listed with its text.
MaxLines == 3

UnorderedLines ==
  { <<<<"-"," ","a">>, <<"a">>>>, <<<<" "," ","*"," ","b"," ","c">>, <<"b"," ","c">>>>, <<<<"+"," "," "," ","d">>, <<"d">>>> }

OrderedLines ==
  { <<<<"1","."," ","x">>, <<"x">>>>, <<<<" ","1","2","."," "," ","y">>, <<"y">>>> }

OtherLines ==
  { <<"t","e","x","t">>, <<>>, <<"-","a">>, <<"1",".","x">>, <<"-"," ">>, <<"-","-","-"," ">> }

ListLines ==
  {p[1] : p \in UnorderedLines} \cup {p[1] : p \in OrderedLines} \cup OtherLines

LineKind(line) ==
  IF \E p \in UnorderedLines : p[1] = line THEN "ul"
  ELSE IF \E p \in OrderedLines : p[1] = line THEN "ol"
  ELSE "other"

LineText(line) ==
  (CHOOSE p \in UnorderedLines \cup OrderedLines : p[1] = line)[2]

InitLists ==
  /\ InitInstance
  /\ \E ls \in SeqUpTo(ListLines, MaxLines) :
       /\ ls # <<>>
       /\ call = [c \in {1} |->
                    [op |-> "parseLists", pc |-> "called",
                     content |-> join(ls, <<"\n">>), lines |-> <<>>, i |-> 0,
                     scan |-> ListScanStart, ret |-> <<>>]]

NextLists ==
  \E c \in DOMAIN call :
    \/ ParseListsBegin(c)
    \/ ParseListsLine(c)
    \/ ParseListsReturn(c)

SpecLists == InitLists /\ [][NextLists]_vars

\* What one list element per maximal run of same-type item lines means for
\* lines 1..n of ls: a list opens at the first line of a run and closes at
\* its last; closeLast says whether the run that line n ends is closed.
RunsOutput(ls, n, closeLast) ==
  Concat([k \in 1..n |->
    LET kind == LineKind(ls[k])
        first == k = 1 \/ LineKind(ls[k - 1]) # kind
        last == IF k = n THEN closeLast
                ELSE LineKind(ls[k + 1]) # kind
    IN IF kind = "ul"
       THEN (IF first THEN <<UlOpen>> ELSE <<>>)
            \o <<ListItem(LineText(ls[k]))>>
            \o (IF last THEN <<UlClose>> ELSE <<>>)
       ELSE IF kind = "ol"
       THEN (IF first THEN <<OlOpen>> ELSE <<>>)
            \o <<ListItem(LineText(ls[k]))>>
            \o (IF last THEN <<OlClose>> ELSE <<>>)
       ELSE <<ls[k]>>])

\* C2: never both lists open; after each line the output so far is the lists
\* of the maximal runs with only the run of the last line still open, and
\* the flag of that run's type the only one set; the returned text closes it.
ListsOnePerRun ==
  \A c \in DOMAIN call :
    call[c].op = "parseLists" =>
      /\ ~(call[c].scan.inUnorderedList /\ call[c].scan.inOrderedList)
      /\ call[c].pc = "loop" =>
           LET n == call[c].i - 1
               ls == call[c].lines
           IN /\ call[c].scan.result = RunsOutput(ls, n, FALSE)
              /\ call[c].scan.inUnorderedList <=> (n > 0 /\ LineKind(ls[n]) = "ul")
              /\ call[c].scan.inOrderedList <=> (n > 0 /\ LineKind(ls[n]) = "ol")
      /\ call[c].pc = "returned" =>
           call[c].ret = join(RunsOutput(call[c].lines, Len(call[c].lines), TRUE), <<"\n">>)

\* the spec's example "- a\n1. b" has returned: </ul> comes before <ol>
ListsTypeSwitchReturned ==
  \E c \in DOMAIN call :
    /\ call[c].op = "parseLists"
    /\ call[c].pc = "returned"
    /\ call[c].content = <<"-"," ","a","\n","1","."," ","x">>
    /\ call[c].ret = join(<<UlOpen, ListItem(<<"a">>), UlClose,
                            OlOpen, ListItem(<<"x">>), OlClose>>, <<"\n">>)

-----------------------------------------------------------------------------
(* extractPreview, lines 116-128.                                          *)

PreviewOpen == <<"<","p","r","e","v","i","e","w",">">>
PreviewClose == <<"<","/","p","r","e","v","i","e","w",">">>

\* /<preview>([\s\S]*?)<\/preview>/g at position i: the lazy body stops at
\* the first closing tag
PreviewMatchEnd(s, i) ==
  IF ~LitAt(PreviewOpen, s, i) THEN 0
  ELSE LET j == IndexOf(PreviewClose, s, i + Len(PreviewOpen))
       IN IF j = 0 THEN 0 ELSE j + Len(PreviewClose)

\* group 1 of the match s[i..e-1]
PreviewInner(s, i, e) == Slice(s, i + Len(PreviewOpen), e - Len(PreviewClose))

extractPreview(content) ==
  LET starts == {i \in 1..Len(content) : PreviewMatchEnd(content, i) > 0}
      first == CHOOSE i \in starts : \A h \in starts : i <= h
  IN [preview |-> IF starts = {} THEN <<>>
                  ELSE trim(PreviewInner(content, first, PreviewMatchEnd(content, first))),
      content |-> ReplaceAll(content, PreviewMatchEnd, Removed)]

CallExtractPreview(c) ==
  /\ call[c].op = "extractPreview"
  /\ call[c].pc = "called"
  /\ call' = [call EXCEPT ![c].pc = "returned",
                          ![c].ret = extractPreview(call[c].content)]
  /\ UNCHANGED instance

PreviewFragments ==
  { <<"<","p","r","e","v","i","e","w",">"," ","a"," ","<","/","p","r","e","v","i","e","w",">">>, <<"<","p","r","e","v","i","e","w",">">>, <<"<","/","p","r","e","v","i","e","w",">">>,
    <<"<","p","r","e">>, <<"v","i","e","w",">","b","<","/","p","r","e","v","i","e","w",">">>, <<"t","e","x","t","\n">>, <<"<","p","r","e","v","i","e","w",">","\n","*","c","*","\n","<","/","p","r","e","v","i","e","w",">">> }

PreviewInputs == {Concat(fs) : fs \in SeqUpTo(PreviewFragments, MaxFragments)}

InitPreview ==
  /\ InitInstance
  /\ \E content \in PreviewInputs :
       call = [c \in {1} |-> [op |-> "extractPreview", pc |-> "called",
                              content |-> content,
                              ret |-> [preview |-> <<>>, content |-> <<>>]]]

NextPreview == \E c \in DOMAIN call : CallExtractPreview(c)

SpecPreview == InitPreview /\ [][NextPreview]_vars

\* C5: the preview is the trimmed inner text of the first span ("" without
\* a span), the returned body holds no <preview>...</preview> span, and a
\* text without a span is returned unchanged.
PreviewBodyHasNoSpan ==
  \A c \in DOMAIN call :
    (call[c].op = "extractPreview" /\ call[c].pc = "returned") =>
      LET content == call[c].content
          open == IndexOf(PreviewOpen, content, 1)
          close == IF open = 0 THEN 0
                   ELSE IndexOf(PreviewClose, content, open + Len(PreviewOpen))
          spanless == \A a \in 1..Len(content) :
                        LitAt(PreviewOpen, content, a) =>
                          IndexOf(PreviewClose, content, a + Len(PreviewOpen)) = 0
      IN /\ ~HasMatch(call[c].ret.content, PreviewMatchEnd)
         /\ spanless => (call[c].ret.preview = <<>> /\ call[c].ret.content = content)
         /\ ~spanless =>
              \E a \in 1..Len(content) :
                /\ LitAt(PreviewOpen, content, a)
                /\ LET z == IndexOf(PreviewClose, content, a + Len(PreviewOpen))
                   IN /\ z > 0
                      /\ \A b \in 1..(a - 1) :
                           LitAt(PreviewOpen, content, b) =>
                             IndexOf(PreviewClose, content, b + Len(PreviewOpen)) = 0
                      /\ call[c].ret.preview =
                           trim(Slice(content, a + Len(PreviewOpen), z))

-----------------------------------------------------------------------------
(* parseMetadata, lines 81-109.                                            *)

Dashes == <<"-","-","-">>

\* content.match(/^---\s*\n([\s\S]*?)\n---\s*\n/): the opening \s* is
\* greedy, the body lazy, the closing \s* greedy.  p is the "\n" that ends
\* the opening line, q the "\n" before the closing "---", r the "\n" that
\* ends the match.  closeNeedsNewline says whether \s*\n follows the closing
\* dashes in the expression.
MetadataMatchWith(s, closeNeedsNewline) ==
  LET w == RunEnd(s, 4, IsSpace)
      closeEnd(q) ==
        IF ~closeNeedsNewline THEN q + 4
        ELSE LET w2 == RunEnd(s, q + 4, IsSpace)
                 rs == {r \in (q + 4)..(w2 - 1) : s[r] = "\n"}
             IN IF rs = {} THEN 0
                ELSE 1 + CHOOSE r \in rs : \A h \in rs : r >= h
      closers(p) == {q \in (p + 1)..Len(s) :
                       LitAt(<<"\n","-","-","-">>, s, q) /\ closeEnd(q) > 0}
      ps == {p \in 4..(w - 1) : s[p] = "\n" /\ closers(p) # {}}
  IN IF ~LitAt(Dashes, s, 1) \/ ps = {}
     THEN [ok |-> FALSE, inner |-> <<>>, end |-> 0]
     ELSE LET p == CHOOSE x \in ps : \A h \in ps : x >= h
              q == CHOOSE x \in closers(p) : \A h \in closers(p) : x <= h
          IN [ok |-> TRUE, inner |-> Slice(s, p + 1, q), end |-> closeEnd(q)]

\* the expression with the closing \s*\n left out
MetadataMatchLoose(s) == MetadataMatchWith(s, FALSE)

MetadataMatch(s) == MetadataMatchWith(s, TRUE)

IsQuote(ch) == ch \in {"\"", "'"}

\* value.replace(/^["']|["']$/g, '')
StripQuotes(value) ==
  LET lo == IF Len(value) > 0 /\ IsQuote(value[1]) THEN 2 ELSE 1
      hi == IF Len(value) >= lo /\ IsQuote(value[Len(value)])
            THEN Len(value) - 1 ELSE Len(value)
  IN Slice(value, lo, hi + 1)

\* an object with string keys as a function; obj[key] = value on it
EmptyObject == [k \in {} |-> <<>>]

SetKey(obj, key, value) ==
  [k \in DOMAIN obj \cup {key} |-> IF k = key THEN value ELSE obj[k]]

\* the body of the for loop, lines 94-105
MetadataLine(metadata, line) ==
  LET trimmed == trim(line)
      colonIndex == IndexOf(<<":">>, trimmed, 1)
      key == trim(Slice(trimmed, 1, colonIndex))
      value == trim(Slice(trimmed, colonIndex + 1, Len(trimmed) + 1))
  IN IF trimmed = <<>> \/ colonIndex = 0 \/ key = <<>> \/ value = <<>>
     THEN metadata
     ELSE SetKey(metadata, key, StripQuotes(value))

parseMetadata(content) ==
  LET match == MetadataMatch(content)
  IN IF ~match.ok
     THEN [metadata |-> EmptyObject, content |-> trim(content)]
     ELSE LET lines == split(match.inner, "\n")
              loop[k \in 0..Len(lines)] ==
                IF k = 0 THEN EmptyObject ELSE MetadataLine(loop[k - 1], lines[k])
          IN [metadata |-> loop[Len(lines)],
              content |-> trim(Slice(content, match.end, Len(content) + 1))]

CallParseMetadata(c) ==
  /\ call[c].op = "parseMetadata"
  /\ call[c].pc = "called"
  /\ call' = [call EXCEPT ![c].pc = "returned",
                          ![c].ret = parseMetadata(call[c].content)]
  /\ UNCHANGED instance

\* The documents handed to parseMetadata: up to MaxMetaLines of these lines,
\* with or without a final newline.
MaxMetaLines == 4

MetadataLines ==
  { <<"-","-","-">>, <<"-","-","-"," ">>, <<"-","-","-","-">>, <<" ","-","-","-">>, <<"t","i","t","l","e",":"," ","\"","H","e","l","l","o","\"">>,
    <<"t","a","g","s",":"," ","a",","," ","b">>, <<"n","o"," ","c","o","l","o","n">>, <<>> }

MetadataInputs ==
  {join(ls, <<"\n">>) \o nl : ls \in SeqUpTo(MetadataLines, MaxMetaLines) \ {<<>>},
                            nl \in {<<>>, <<"\n">>}}

InitMetadata ==
  /\ InitInstance
  /\ \E content \in MetadataInputs :
       call = [c \in {1} |-> [op |-> "parseMetadata", pc |-> "called",
                              content |-> content,
                              ret |-> [metadata |-> EmptyObject, content |-> <<>>]]]

NextMetadata == \E c \in DOMAIN call : CallParseMetadata(c)

SpecMetadata == InitMetadata /\ [][NextMetadata]_vars

\* a line that holds only "---" (and trailing blanks)
IsDelimiterLine(line) ==
  /\ LitAt(Dashes, line, 1)
  /\ \A k \in 4..Len(line) : IsSpace(line[k])

\* the document opens with a "---" line and no later line closes the block
OpensUnclosed(content) ==
  LET lines == split(content, "\n")
  IN /\ Len(lines) >= 2
     /\ IsDelimiterLine(lines[1])
     /\ \A k \in 2..Len(lines) : ~IsDelimiterLine(lines[k])

\* C6: a document that opens with "---" and never closes the block comes
\* back with empty metadata and its whole text, trimmed, as the body.
UnclosedFrontMatterIsBody ==
  \A c \in DOMAIN call :
    (call[c].op = "parseMetadata" /\ call[c].pc = "returned"
       /\ OpensUnclosed(call[c].content)) =>
      /\ call[c].ret.metadata = EmptyObject
      /\ call[c].ret.content = trim(call[c].content)

\* an unclosed block with a key line and a line of four dashes has returned
UnclosedFrontMatterReturned ==
  \E c \in DOMAIN call :
    /\ call[c].op = "parseMetadata"
    /\ call[c].pc = "returned"
    /\ call[c].content = <<"-","-","-","\n","t","i","t","l","e",":"," ","\"","H","e","l","l","o","\"","\n","-","-","-","-","\n">>
    /\ OpensUnclosed(call[c].content)
    /\ call[c].ret.content = <<"-","-","-","\n","t","i","t","l","e",":"," ","\"","H","e","l","l","o","\"","\n","-","-","-","-">>

-----------------------------------------------------------------------------
(* parseLinksAndImages, lines 196-213.                                     *)

\* \]\(([^)]+)\) from the "]" at position b: the end (exclusive) of the
\* match, 0 when there is none
UrlPartEnd(s, b) ==
  IF b + 1 > Len(s) \/ s[b] # "]" \/ s[b + 1] # "(" THEN 0
  ELSE LET e == RunEnd(s, b + 2, LAMBDA ch : ch # ")")
       IN IF e = b + 2 \/ e > Len(s) THEN 0 ELSE e + 1

\* the "]" that ends the bracket text opened before position t
BracketEnd(s, t) == RunEnd(s, t, LAMBDA ch : ch # "]")

\* /!\[([^\]]*)\]\(([^)]+)\)/g at position i
ImageMatchEnd(s, i) ==
  IF ~LitAt(<<"!","[">>, s, i) THEN 0 ELSE UrlPartEnd(s, BracketEnd(s, i + 2))

\* /\[([^\]]+)\]\(([^)]+)\)/g at position i
LinkMatchEnd(s, i) ==
  IF s[i] # "[" \/ BracketEnd(s, i + 1) = i + 1 THEN 0
  ELSE UrlPartEnd(s, BracketEnd(s, i + 1))

\* url.startsWith('http')
StartsWithHttp(url) == LitAt(<<"h","t","t","p">>, url, 1)

ImageElement(escapedAlt, escapedSrc) ==
  <<"<","i","m","g"," ","s","r","c","=","\"">> \o escapedSrc \o <<"\""," ","a","l","t","=","\"">> \o escapedAlt
  \o <<"\""," ","c","l","a","s","s","=","\"","b","l","o","g","-","i","m","a","g","e","\""," ","l","o","a","d","i","n","g","=","\"","l","a","z","y","\"",">">>

LinkElement(escapedText, escapedUrl, external) ==
  <<"<","a"," ","h","r","e","f","=","\"">> \o escapedUrl \o <<"\""," ","c","l","a","s","s","=","\"","b","l","o","g","-","l","i","n","k","\"">>
  \o (IF external THEN <<" ","t","a","r","g","e","t","=","\"","_","b","l","a","n","k","\""," ","r","e","l","=","\"","n","o","o","p","e","n","e","r"," ","n","o","r","e","f","e","r","r","e","r","\"">> ELSE <<>>)
  \o <<">">> \o escapedText \o <<"<","/","a",">">>

parseLinksAndImages(entities, content) ==
  LET image(s, i, e) ==
        LET b == BracketEnd(s, i + 2)
        IN ImageElement(escapeHtmlWith(entities, Slice(s, i + 2, b)),
                        escapeHtmlWith(entities, Slice(s, b + 2, e - 1)))
      link(s, i, e) ==
        LET b == BracketEnd(s, i + 1)
            url == Slice(s, b + 2, e - 1)
        IN LinkElement(escapeHtmlWith(entities, Slice(s, i + 1, b)),
                       escapeHtmlWith(entities, url), StartsWithHttp(url))
  IN ReplaceAll(ReplaceAll(content, ImageMatchEnd, image), LinkMatchEnd, link)

CallParseLinksAndImages(c) ==
  /\ call[c].op = "parseLinksAndImages"
  /\ call[c].pc = "called"
  /\ call' = [call EXCEPT ![c].pc = "returned",
                          ![c].ret = parseLinksAndImages(htmlEntities, call[c].content)]
  /\ UNCHANGED instance

LinkFragments ==
  { <<"!","[","a","]","(","u",".","p","n","g",")">>, <<"!","[","a","[","b","]","(","u",".","p","n","g",")">>, <<"!","[","]","(","u",".","p","n","g",")">>, <<"!","[","a","]","(","b","[","c","]","(","d",")">>,
    <<"[">>, <<"]","(","v",")">>, <<"[","t","]","(","h","t","t","p",":","/","/","v",")">>, <<" ","(","e",")">>, <<"s","e","e"," ">> }

LinkInputs == {Concat(fs) : fs \in SeqUpTo(LinkFragments, MaxFragments)}

InitLinks ==
  /\ InitInstance
  /\ \E content \in LinkInputs :
       call = [c \in {1} |-> [op |-> "parseLinksAndImages", pc |-> "called",
                              content |-> content, ret |-> <<>>]]

NextLinks == \E c \in DOMAIN call : CallParseLinksAndImages(c)

SpecLinks == InitLinks /\ [][NextLinks]_vars

\* the number of places where lit stands in s
Occurrences(lit, s) == Cardinality({i \in 1..Len(s) : LitAt(lit, s, i)})

\* C8: the output holds one <img> element for each image span of the text,
\* and as many <a> elements as the text has links outside its image spans.
ImageSpanYieldsOneImgNoLink ==
  \A c \in DOMAIN call :
    (call[c].op = "parseLinksAndImages" /\ call[c].pc = "returned") =>
      LET content == call[c].content
          outside == ReplaceAll(content, ImageMatchEnd, LAMBDA s, i, e : <<" ">>)
      IN /\ Occurrences(<<"<","i","m","g"," ">>, call[c].ret) = CountMatches(content, ImageMatchEnd)
         /\ Occurrences(<<"<","a"," ">>, call[c].ret) = CountMatches(outside, LinkMatchEnd)

-----------------------------------------------------------------------------
(* parseCode, lines 174-189.                                               *)

\* The backquote cannot be written in a string here: the one-character
\* string "`" of the source is the string "BACKTICK".
Backtick == "BACKTICK"

Fence == <<Backtick, Backtick, Backtick>>

\* the "\n" after the language tag of the fence opened at i, 0 when the
\* fence line does not end there: ```(\w*)\n
FenceLineEnd(s, i) ==
  IF ~LitAt(Fence, s, i) THEN 0
  ELSE LET w == RunEnd(s, i + 3, IsWordChar)
       IN IF w > Len(s) \/ s[w] # "\n" THEN 0 ELSE w

\* /```(\w*)\n([\s\S]*?)```/g at position i
CodeBlockMatchEnd(s, i) ==
  LET w == FenceLineEnd(s, i)
      j == IF w = 0 THEN 0 ELSE IndexOf(Fence, s, w + 1)
  IN IF j = 0 THEN 0 ELSE j + 3

\* /`([^`]+)`/g at position i
InlineCodeMatchEnd(s, i) ==
  IF s[i] # Backtick THEN 0
  ELSE LET e == RunEnd(s, i + 1, LAMBDA ch : ch # Backtick)
       IN IF e = i + 1 \/ e > Len(s) THEN 0 ELSE e + 1

CodeBlockElement(language, escapedCode) ==
  <<"<","p","r","e"," ","c","l","a","s","s","=","\"","b","l","o","g","-","c","o","d","e","-","b","l","o","c","k","\"",">","<","c","o","d","e"," ","c","l","a","s","s","=","\"","b","l","o","g","-","c","o","d","e">>
  \o (IF language = <<>> THEN <<>> ELSE <<" ","l","a","n","g","u","a","g","e","-">> \o language)
  \o <<"\"",">">> \o escapedCode \o <<"<","/","c","o","d","e",">","<","/","p","r","e",">">>

InlineCodeElement(escapedCode) ==
  <<"<","c","o","d","e"," ","c","l","a","s","s","=","\"","b","l","o","g","-","i","n","l","i","n","e","-","c","o","d","e","\"",">">> \o escapedCode \o <<"<","/","c","o","d","e",">">>

parseCode(entities, content) ==
  LET block(s, i, e) ==
        LET w == FenceLineEnd(s, i)
        IN CodeBlockElement(Slice(s, i + 3, w),
                            escapeHtmlWith(entities, trim(Slice(s, w + 1, e - 3))))
      inline(s, i, e) ==
        InlineCodeElement(escapeHtmlWith(entities, Slice(s, i + 1, e - 1)))
  IN ReplaceAll(ReplaceAll(content, CodeBlockMatchEnd, block), InlineCodeMatchEnd, inline)

-----------------------------------------------------------------------------
(* parseHeadings, lines 135-141.                                           *)

\* ^ under the m flag
AtLineStart(s, i) == i = 1 \/ IsLineTerminator(s[i - 1])

\* \s+(.+)$ under the m flag from position m: \s+ is greedy (it may cross
\* line ends) and gives characters back until (.+) finds a character; (.+)
\* then runs to the end of its line.  start = 0 when there is no match.
LineRest(s, m) ==
  LET w == RunEnd(s, m, IsSpace)
      starts == {k \in (m + 1)..w : k <= Len(s) /\ ~IsLineTerminator(s[k])}
  IN IF starts = {} THEN [start |-> 0, end |-> 0]
     ELSE LET k == CHOOSE x \in starts : \A y \in starts : x >= y
          IN [start |-> k, end |-> RunEnd(s, k, LAMBDA ch : ~IsLineTerminator(ch))]

\* the number of "#" that ^(#{1,6}) takes at i when \s follows, else 0
HeadingLevel(s, i) ==
  LET h == RunEnd(s, i, LAMBDA ch : ch = "#")
  IN IF AtLineStart(s, i) /\ h - i \in 1..6 THEN h - i ELSE 0

\* /^(#{1,6})\s+(.+)$/gm at position i
HeadingMatchEnd(s, i) ==
  IF HeadingLevel(s, i) = 0 THEN 0
  ELSE LineRest(s, i + HeadingLevel(s, i)).end

IsIdChar(ch) == ch \in Range(LowerLetters) \cup Digits

\* text.toLowerCase().replace(/[^a-z0-9]+/g, '-').replace(/^-|-$/g, '')
HeadingId(text) ==
  LET lower == toLowerCase(text)
      run(s, i) == IF IsIdChar(s[i]) THEN 0
                   ELSE RunEnd(s, i, LAMBDA ch : ~IsIdChar(ch))
      dashed == ReplaceAll(lower, run, LAMBDA s, i, e : <<"-">>)
      lo == IF Len(dashed) > 0 /\ dashed[1] = "-" THEN 2 ELSE 1
      hi == IF Len(dashed) >= lo /\ dashed[Len(dashed)] = "-"
            THEN Len(dashed) - 1 ELSE Len(dashed)
  IN Slice(dashed, lo, hi + 1)

LevelDigit(level) == <<"1", "2", "3", "4", "5", "6">>[level]

HeadingElement(level, text) ==
  <<"<","h">> \o <<LevelDigit(level)>> \o <<" ","i","d","=","\"">> \o HeadingId(text)
  \o <<"\""," ","c","l","a","s","s","=","\"","b","l","o","g","-","h","e","a","d","i","n","g","\"",">">> \o trim(text)
  \o <<"<","/","h">> \o <<LevelDigit(level)>> \o <<">">>

parseHeadings(content) ==
  LET heading(s, i, e) ==
        LET level == HeadingLevel(s, i)
        IN HeadingElement(level, Slice(s, LineRest(s, i + level).start, e))
  IN ReplaceAll(content, HeadingMatchEnd, heading)

-----------------------------------------------------------------------------
(* parseFormatting, lines 148-167.                                         *)

\* \*\*(.*?)\*\* and \*(.*?)\* at position i, for the delimiter d: the lazy
\* body stops at the first closing delimiter and cannot cross a line end
EmphasisMatchEnd(s, i, d) ==
  IF ~LitAt(d, s, i) THEN 0
  ELSE LET j == IndexOf(d, s, i + Len(d))
           eol == RunEnd(s, i + Len(d), LAMBDA ch : ~IsLineTerminator(ch))
       IN IF j = 0 \/ j >= eol THEN 0 ELSE j + Len(d)

BoldMatchEnd(s, i) == EmphasisMatchEnd(s, i, <<"*","*">>)

ItalicMatchEnd(s, i) == EmphasisMatchEnd(s, i, <<"*">>)

BoldElement(text) == <<"<","s","t","r","o","n","g"," ","c","l","a","s","s","=","\"","b","l","o","g","-","b","o","l","d","\"",">">> \o text \o <<"<","/","s","t","r","o","n","g",">">>

\* both branches of the nesting test return the same element
ItalicElement(text) == <<"<","e","m"," ","c","l","a","s","s","=","\"","b","l","o","g","-","i","t","a","l","i","c","\"",">">> \o text \o <<"<","/","e","m",">">>

parseFormatting(content) ==
  LET bold(s, i, e) == BoldElement(Slice(s, i + 2, e - 2))
      italic(s, i, e) == ItalicElement(Slice(s, i + 1, e - 1))
  IN ReplaceAll(ReplaceAll(content, BoldMatchEnd, bold), ItalicMatchEnd, italic)

-----------------------------------------------------------------------------
(* parseBlockElements, lines 276-284.                                      *)

\* /^>\s+(.+)$/gm at position i
BlockquoteMatchEnd(s, i) ==
  IF AtLineStart(s, i) /\ s[i] = ">" THEN LineRest(s, i + 1).end ELSE 0

\* /^---$/gm at position i
HorizontalRuleMatchEnd(s, i) ==
  IF /\ AtLineStart(s, i)
     /\ LitAt(Dashes, s, i)
     /\ (i + 3 > Len(s) \/ IsLineTerminator(s[i + 3]))
  THEN i + 3 ELSE 0

BlockquoteElement(text) ==
  <<"<","b","l","o","c","k","q","u","o","t","e"," ","c","l","a","s","s","=","\"","b","l","o","g","-","b","l","o","c","k","q","u","o","t","e","\"",">">> \o text \o <<"<","/","b","l","o","c","k","q","u","o","t","e",">">>

HorizontalRuleElement == <<"<","h","r"," ","c","l","a","s","s","=","\"","b","l","o","g","-","h","r","\"",">">>

parseBlockElements(content) ==
  LET quote(s, i, e) == BlockquoteElement(Slice(s, LineRest(s, i + 1).start, e))
      rule(s, i, e) == HorizontalRuleElement
  IN ReplaceAll(ReplaceAll(content, BlockquoteMatchEnd, quote),
                HorizontalRuleMatchEnd, rule)

-----------------------------------------------------------------------------
(* parseParagraphs, lines 291-315.                                         *)

\* /\n\s*\n/ at position i: \s* is greedy and gives back to the last "\n"
\* of the blank run
SectionBreakEnd(s, i) ==
  IF s[i] # "\n" THEN 0
  ELSE LET w == RunEnd(s, i + 1, IsSpace)
           rs == {r \in (i + 1)..(w - 1) : s[r] = "\n"}
       IN IF rs = {} THEN 0 ELSE 1 + CHOOSE r \in rs : \A h \in rs : r >= h

\* content.split(/\n\s*\n/)
SplitSections(s) ==
  LET f[i \in 1..(Len(s) + 1)] ==
        \* the sections of s from position i on
        LET breaks == {b \in i..Len(s) : SectionBreakEnd(s, b) > 0}
        IN IF breaks = {} THEN <<Slice(s, i, Len(s) + 1)>>
           ELSE LET b == CHOOSE x \in breaks : \A y \in breaks : x <= y
                IN <<Slice(s, i, b)>> \o f[SectionBreakEnd(s, b)]
  IN f[1]

\* the tests of lines 301-306 on a trimmed section
\* /^<[^>]+>/
StartsWithTag(t) ==
  /\ Len(t) > 0
  /\ t[1] = "<"
  /\ LET g == RunEnd(t, 2, LAMBDA ch : ch # ">") IN g > 2 /\ g <= Len(t)

\* /^#{1,6}\s/
StartsWithHeadingMarker(t) ==
  LET h == RunEnd(t, 1, LAMBDA ch : ch = "#")
  IN h - 1 \in 1..6 /\ h <= Len(t) /\ IsSpace(t[h])

\* /^[-*+]\s/
StartsWithBullet(t) == Len(t) >= 2 /\ t[1] \in {"-", "*", "+"} /\ IsSpace(t[2])

\* /^\d+\.\s/
StartsWithNumber(t) ==
  LET d == RunEnd(t, 1, IsDigit)
  IN d > 1 /\ d + 1 <= Len(t) /\ t[d] = "." /\ IsSpace(t[d + 1])

\* /^>\s/
StartsWithQuoteMarker(t) == Len(t) >= 2 /\ t[1] = ">" /\ IsSpace(t[2])

\* /^```/
StartsWithFence(t) == LitAt(Fence, t, 1)

PassesUnwrapped(t) ==
  \/ StartsWithTag(t)
  \/ StartsWithHeadingMarker(t)
  \/ StartsWithBullet(t)
  \/ StartsWithNumber(t)
  \/ StartsWithQuoteMarker(t)
  \/ StartsWithFence(t)

ParagraphElement(text) == <<"<","p"," ","c","l","a","s","s","=","\"","b","l","o","g","-","p","a","r","a","g","r","a","p","h","\"",">">> \o text \o <<"<","/","p",">">>

parseParagraphs(content) ==
  LET sections == SplitSections(content)
      loop[k \in 0..Len(sections)] ==
        IF k = 0 THEN <<>>
        ELSE LET trimmed == trim(sections[k])
             IN IF trimmed = <<>> THEN loop[k - 1]
                ELSE IF PassesUnwrapped(trimmed) THEN Append(loop[k - 1], trimmed)
                ELSE Append(loop[k - 1], ParagraphElement(trimmed))
  IN join(loop[Len(sections)], <<"\n","\n">>)

-----------------------------------------------------------------------------
(* countWords and estimateReadTime, lines 380-394.                         *)

\* /<[^>]*>/g at position i
TagMatchEnd(s, i) ==
  IF s[i] # "<" THEN 0
  ELSE LET g == RunEnd(s, i + 1, LAMBDA ch : ch # ">")
       IN IF g > Len(s) THEN 0 ELSE g + 1

StripTags(content) == ReplaceAll(content, TagMatchEnd, Removed)

\* textOnly.split(/\s+/).length on a trimmed, non-empty text: one more than
\* the number of blank runs
countWords(content) ==
  LET textOnly == trim(StripTags(content))
      \* where the matches of /\s+/ start: each blank run is one match
      blanks == {i \in 1..Len(textOnly) :
                  IsSpace(textOnly[i]) /\ (i = 1 \/ ~IsSpace(textOnly[i - 1]))}
  IN IF textOnly = <<>> THEN 0 ELSE 1 + Cardinality(blanks)

wordsPerMinute == 200

\* a variant that rounds the quotient down
estimateReadTimeFloor(content) ==
  LET wordCount == countWords(content)
      floor == wordCount \div wordsPerMinute
  IN IF floor > 1 THEN floor ELSE 1

\* Math.max(1, Math.ceil(wordCount / wordsPerMinute))
estimateReadTime(content) ==
  LET wordCount == countWords(content)
      ceil == (wordCount + wordsPerMinute - 1) \div wordsPerMinute
  IN IF ceil > 1 THEN ceil ELSE 1

-----------------------------------------------------------------------------
(* parse, lines 322-373.                                                   *)

\* JavaScript values that may be passed as rawContent
StringValue(s) == [type |-> "string", str |-> s, num |-> 0]
NumberValue(n) == [type |-> "number", str |-> <<>>, num |-> n]
Undefined == [type |-> "undefined", str |-> <<>>, num |-> 0]
Null == [type |-> "object", str |-> <<>>, num |-> 0]
SomeObject == [type |-> "object", str |-> <<>>, num |-> 1]

\* !v
IsFalsy(v) ==
  \/ v.type = "undefined"
  \/ v = Null
  \/ v.type = "number" /\ v.num = 0
  \/ v.type = "string" /\ v.str = <<>>

InvalidInputMessage == <<"Invalid input: content must be a non-empty string">>

\* the catch clause, line 371
ParseFailureMessage(message) == <<"Failed to parse .col content: ">> \o message

NoError == <<>>

\* a variant with the test inside the try block: the catch clause wraps it
InputErrorWrapped(rawContent) ==
  IF IsFalsy(rawContent) \/ rawContent.type # "string"
  THEN ParseFailureMessage(InvalidInputMessage)
  ELSE NoError

\* lines 323-325: the message thrown for rawContent, NoError when it passes
InputError(rawContent) ==
  IF IsFalsy(rawContent) \/ rawContent.type # "string"
  THEN InvalidInputMessage
  ELSE NoError

\* the values of the metadata object of the result: a string or an array
TextOf(s) == [kind |-> "string", str |-> s, items |-> <<>>]
ArrayOf(xs) == [kind |-> "array", str |-> <<>>, items |-> xs]

TitleKey == <<"t","i","t","l","e">>
DateKey == <<"d","a","t","e">>
AuthorKey == <<"a","u","t","h","o","r">>
TagsKey == <<"t","a","g","s">>

\* metadata.tags.split(',').map(tag => tag.trim())
SplitTags(tags) ==
  LET parts == split(tags, ",") IN [k \in 1..Len(parts) |-> trim(parts[k])]

\* lines 357-363: the four computed properties, then ...metadata, which
\* writes every key of the parsed front matter over them
ResultMetadata(metadata, today) ==
  LET has(k) == k \in DOMAIN metadata
      computed == [k \in {TitleKey, DateKey, AuthorKey, TagsKey} |->
        IF k = TitleKey THEN TextOf(IF has(k) THEN metadata[k] ELSE <<"U","n","t","i","t","l","e","d">>)
        ELSE IF k = DateKey THEN TextOf(IF has(k) THEN metadata[k] ELSE today)
        ELSE IF k = AuthorKey THEN TextOf(IF has(k) THEN metadata[k] ELSE <<"A","n","o","n","y","m","o","u","s">>)
        ELSE IF has(k) THEN ArrayOf(SplitTags(metadata[k])) ELSE ArrayOf(<<>>)]
  IN [k \in DOMAIN computed \cup DOMAIN metadata |->
        IF has(k) THEN TextOf(metadata[k]) ELSE computed[k]]

NoResult == [k \in {} |-> 0]

\* lines 356-368
ParseResult(metadata, today, processedPreview, processedContent) ==
  [metadata |-> ResultMetadata(metadata, today),
   preview |-> processedPreview,
   content |-> trim(processedContent),
   wordCount |-> countWords(processedContent),
   estimatedReadTime |-> estimateReadTime(processedContent)]

\* step 4, lines 338-344
Transform(entities, sanitized) ==
  parseParagraphs(
    parseBlockElements(
      parseLists(
        parseFormatting(
          parseLinksAndImages(entities,
            parseHeadings(
              parseCode(entities, sanitized)))))))

\* step 5, lines 347-354
ProcessPreview(entities, preview) ==
  IF preview = <<>> THEN <<>>
  ELSE trim(parseLinksAndImages(entities, parseFormatting(sanitizeHtml(preview))))

\* parse as a function of its argument, the entity table and the date of
\* the call: what it returns and what it throws
parse(entities, rawContent, today) ==
  IF InputError(rawContent) # NoError
  THEN [error |-> InputError(rawContent), result |-> NoResult]
  ELSE LET meta == parseMetadata(rawContent.str)
           prev == extractPreview(meta.content)
       IN [error |-> NoError,
           result |-> ParseResult(meta.metadata, today,
                                  ProcessPreview(entities, prev.preview),
                                  Transform(entities, sanitizeHtml(prev.content)))]

\* the stages of one call in the order of lines 329-356
Stages ==
  <<"parseMetadata", "extractPreview", "sanitizeHtml", "parseCode",
    "parseHeadings", "parseLinksAndImages", "parseFormatting", "parseLists",
    "parseBlockElements", "parseParagraphs", "preview", "return">>

\* the stage after stage n
After(n) == Stages[1 + CHOOSE k \in 1..(Len(Stages) - 1) : Stages[k] = n]

NewParseCall(rawContent) ==
  [op |-> "parse", pc |-> "called", rawContent |-> rawContent,
   metadata |-> EmptyObject, preview |-> <<>>, processedContent |-> <<>>,
   processedPreview |-> <<>>, result |-> NoResult, error |-> NoError,
   ran |-> <<>>]

\* call c is parse, about to run stage n
AtStage(c, n) == call[c].op = "parse" /\ call[c].pc = n

\* stage n of call c has run and left the locals as in st
Ran(c, n, st) ==
  call' = [call EXCEPT ![c] = [st EXCEPT !.pc = After(n), !.ran = Append(st.ran, n)]]

\* lines 323-325
ParseCheckInput(c) ==
  /\ AtStage(c, "called")
  /\ call' = [call EXCEPT ![c] =
       IF InputError(call[c].rawContent) # NoError
       THEN [call[c] EXCEPT !.pc = "threw", !.error = InputError(call[c].rawContent)]
       ELSE [call[c] EXCEPT !.pc = Stages[1]]]
  /\ UNCHANGED instance

\* line 329
ParseStepMetadata(c) ==
  /\ AtStage(c, "parseMetadata")
  /\ LET r == parseMetadata(call[c].rawContent.str)
     IN Ran(c, "parseMetadata",
            [call[c] EXCEPT !.metadata = r.metadata, !.processedContent = r.content])
  /\ UNCHANGED instance

\* a variant that takes the first span with RegExp.prototype.exec on the
\* g-flag expression: exec starts at lastIndex and leaves it behind the match
ParseStepPreviewStateful(c) ==
  /\ AtStage(c, "extractPreview")
  /\ LET content == call[c].processedContent
         m == NextMatch(content, patterns["preview"].lastIndex + 1, PreviewMatchEnd)
         e == IF m = 0 THEN 0 ELSE PreviewMatchEnd(content, m)
     IN /\ Ran(c, "extractPreview",
               [call[c] EXCEPT
                  !.preview = IF m = 0 THEN <<>> ELSE trim(PreviewInner(content, m, e)),
                  !.processedContent = ReplaceAll(content, PreviewMatchEnd, Removed)])
        /\ patterns' = [patterns EXCEPT !["preview"].lastIndex = IF m = 0 THEN 0 ELSE e - 1]
  /\ UNCHANGED <<htmlEntities, allowedTags>>

\* line 332
ParseStepPreview(c) ==
  /\ AtStage(c, "extractPreview")
  /\ LET r == extractPreview(call[c].processedContent)
     IN Ran(c, "extractPreview",
            [call[c] EXCEPT !.preview = r.preview, !.processedContent = r.content])
  /\ UNCHANGED instance

\* line 335
ParseStepSanitize(c) ==
  /\ AtStage(c, "sanitizeHtml")
  /\ Ran(c, "sanitizeHtml",
         [call[c] EXCEPT !.processedContent = sanitizeHtml(call[c].processedContent)])
  /\ UNCHANGED instance

\* line 338
ParseStepCode(c) ==
  /\ AtStage(c, "parseCode")
  /\ Ran(c, "parseCode",
         [call[c] EXCEPT !.processedContent =
            parseCode(htmlEntities, call[c].processedContent)])
  /\ UNCHANGED instance

\* line 339
ParseStepHeadings(c) ==
  /\ AtStage(c, "parseHeadings")
  /\ Ran(c, "parseHeadings",
         [call[c] EXCEPT !.processedContent = parseHeadings(call[c].processedContent)])
  /\ UNCHANGED instance

\* line 340
ParseStepLinksAndImages(c) ==
  /\ AtStage(c, "parseLinksAndImages")
  /\ Ran(c, "parseLinksAndImages",
         [call[c] EXCEPT !.processedContent =
            parseLinksAndImages(htmlEntities, call[c].processedContent)])
  /\ UNCHANGED instance

\* line 341
ParseStepFormatting(c) ==
  /\ AtStage(c, "parseFormatting")
  /\ Ran(c, "parseFormatting",
         [call[c] EXCEPT !.processedContent = parseFormatting(call[c].processedContent)])
  /\ UNCHANGED instance

\* line 342
ParseStepLists(c) ==
  /\ AtStage(c, "parseLists")
  /\ Ran(c, "parseLists",
         [call[c] EXCEPT !.processedContent = parseLists(call[c].processedContent)])
  /\ UNCHANGED instance

\* line 343
ParseStepBlockElements(c) ==
  /\ AtStage(c, "parseBlockElements")
  /\ Ran(c, "parseBlockElements",
         [call[c] EXCEPT !.processedContent =
            parseBlockElements(call[c].processedContent)])
  /\ UNCHANGED instance

\* line 344
ParseStepParagraphs(c) ==
  /\ AtStage(c, "parseParagraphs")
  /\ Ran(c, "parseParagraphs",
         [call[c] EXCEPT !.processedContent = parseParagraphs(call[c].processedContent)])
  /\ UNCHANGED instance

\* lines 347-354
ParseStepProcessPreview(c) ==
  /\ AtStage(c, "preview")
  /\ Ran(c, "preview",
         [call[c] EXCEPT !.processedPreview =
            ProcessPreview(htmlEntities, call[c].preview)])
  /\ UNCHANGED instance

\* The dates new Date() may give while a call runs.
Dates == { <<"2","0","2","6","-","1","1","-","0","2">>, <<"2","0","2","6","-","1","1","-","0","3">> }

\* lines 356-368
ParseReturn(c) ==
  /\ AtStage(c, "return")
  /\ \E today \in Dates :
       call' = [call EXCEPT ![c] =
         [call[c] EXCEPT !.pc = "returned",
                         !.ran = Append(call[c].ran, "return"),
                         !.result = ParseResult(call[c].metadata, today,
                                                call[c].processedPreview,
                                                call[c].processedContent)]]
  /\ UNCHANGED instance

ParseStep(c) ==
  \/ ParseCheckInput(c)
  \/ ParseStepMetadata(c)
  \/ ParseStepPreview(c)
  \/ ParseStepSanitize(c)
  \/ ParseStepCode(c)
  \/ ParseStepHeadings(c)
  \/ ParseStepLinksAndImages(c)
  \/ ParseStepFormatting(c)
  \/ ParseStepLists(c)
  \/ ParseStepBlockElements(c)
  \/ ParseStepParagraphs(c)
  \/ ParseStepProcessPreview(c)
  \/ ParseReturn(c)

-----------------------------------------------------------------------------
(* The arguments of parse.                                                 *)

\* a fenced code block with inner text code
Fenced(language, code) == Fence \o language \o <<"\n">> \o code \o Fence

\* inner texts of code blocks; none holds a character escapeHtml rewrites
CodeTexts == { <<"p","l","a","i","n","\n">>, <<"a","\n","#"," ","b","\n">>, <<"x"," ","*","y","*"," ","z","\n">>, <<" "," ","k","\n","-"," ","i","\n">> }

\* prose lines: no heading, list item, blockquote, rule or code block
ProseLines == { <<"*","*","b","o","l","d","*","*"," ","a","n","d"," ","*","e","m","*">>, <<"p","l","a","i","n"," ","t","e","x","t">> }

FrontMatters ==
  { <<>>,
    <<"-","-","-","\n","t","i","t","l","e",":"," ","H","e","l","l","o","\n","t","a","g","s",":"," ","a",","," ","b","\n","-","-","-","\n">>,
    <<"-","-","-","\n","a","u","t","h","o","r",":"," ","'","M","e","'","\n","d","a","t","e",":"," ","2","0","2","0","-","0","1","-","0","2","\n","k",":"," ","v","\n","-","-","-","\n">>,
    <<"-","-","-","\n","t","i","t","l","e",":"," ","x","\n">> }

BodyBlocks ==
  ProseLines
  \cup {Fenced(<<>>, code) : code \in CodeTexts}
  \cup { <<"#"," ","H","i">>, <<"-"," ","a">>, <<"1","."," ","b">>, <<">"," ","q">>, <<"-","-","-">>, <<>>,
         <<"<","p","r","e","v","i","e","w",">","*","p","*"," ","[","t","]","(","u",")","<","/","p","r","e","v","i","e","w",">">>, <<"!","[","a","]","(","u",".","p","n","g",")"," ","BACKTICK","c","<","d","BACKTICK">>,
         <<"<","s","c","r","i","p","t",">","a","l","e","r","t","(","1",")","<","/","s","c","r","i","p","t",">","<","p"," ","o","n","c","l","i","c","k","=","\"","x","(",")","\"",">","h","i","<","/","p",">">> }

\* a prose line of n one-letter words
Words(n) == [i \in 1..(2 * n - 1) |-> IF i % 2 = 1 THEN "w" ELSE " "]

\* Long documents: prose whose word count is a multiple of wordsPerMinute up
\* to MaxReadTime minutes, and one word more.
MaxReadTime == 2

LongDocuments ==
  {Words(k * wordsPerMinute + d) : k \in 1..MaxReadTime, d \in {0, 1}}

\* prose with angle brackets that are not the author's tags
AngleDocuments ==
  { <<"a"," ","<"," ","b">>, <<"a"," ",">"," ","b"," ","<"," ","c"," ",">"," ","d">>, <<"x"," ","<","<","b",">","y","<","/","b",">"," ","z">>, <<"1"," ","<"," ","2","\n","\n","<","i",">","k","<","/","i",">"," ",">">> }

\* A document: a front matter and one block, or up to MaxBlocks blocks, one
\* per line, or a long document, or prose with angle brackets.
MaxBlocks == 2

Documents ==
  {fm \o b : fm \in FrontMatters, b \in BodyBlocks}
  \cup {join(bs, <<"\n">>) : bs \in SeqUpTo(BodyBlocks, MaxBlocks)}
  \cup LongDocuments
  \cup AngleDocuments

ParseArguments ==
  {StringValue(d) : d \in Documents}
  \cup {Undefined, Null, SomeObject, NumberValue(0), NumberValue(42)}

\* One call of parse on a fresh instance.
Init ==
  /\ InitInstance
  /\ \E rawContent \in ParseArguments : call = [c \in {1} |-> NewParseCall(rawContent)]

Next == \E c \in DOMAIN call : ParseStep(c)

Spec == Init /\ [][Next]_vars

ResultFields == {"metadata", "preview", "content", "wordCount", "estimatedReadTime"}

\* C3: an absent, non-string or empty argument makes parse throw the
\* InvalidInput error, unwrapped, before any stage has run; any other
\* argument is never rejected; a result exists only once every stage has
\* run, and then it has all five fields.
ParseRejectsOrCompletes ==
  \A c \in DOMAIN call :
    call[c].op = "parse" =>
      LET arg == call[c].rawContent
          bad == arg.type # "string" \/ arg.str = <<>>
      IN /\ bad => /\ call[c].pc \in {"called", "threw"}
                   /\ call[c].ran = <<>>
                   /\ call[c].pc = "threw" => call[c].error = InvalidInputMessage
         /\ ~bad => (call[c].pc # "threw" /\ call[c].error = NoError)
         /\ call[c].pc = "returned" =>
              (DOMAIN call[c].result = ResultFields /\ call[c].ran = Stages)
         /\ call[c].pc # "returned" => call[c].result = NoResult

\* parse("") has thrown
EmptyStringRejected ==
  \E c \in DOMAIN call :
    /\ call[c].op = "parse"
    /\ call[c].rawContent = StringValue(<<>>)
    /\ call[c].pc = "threw"
    /\ call[c].error = InvalidInputMessage

\* C4: metadata.tags of the result is an array of strings, the front
\* matter's value split on commas and trimmed, empty without a tags key;
\* title, date and author are the defaults exactly when the key is absent.
ResultTagsIsSequence ==
  \A c \in DOMAIN call :
    (call[c].op = "parse" /\ call[c].pc = "returned") =>
      LET r == call[c].result.metadata
          given == call[c].metadata
          tagged == LitAt(<<"-","-","-","\n","t","i","t","l","e",":"," ","H","e","l","l","o","\n","t","a","g","s",":"," ","a",","," ","b","\n","-","-","-","\n">>, call[c].rawContent.str, 1)
      IN /\ r[TagsKey].kind = "array"
         /\ tagged => r[TagsKey].items = << <<"a">>, <<"b">> >>
         /\ TagsKey \notin DOMAIN given => r[TagsKey].items = <<>>
         /\ r[TitleKey] = TextOf(IF TitleKey \in DOMAIN given
                                 THEN given[TitleKey] ELSE <<"U","n","t","i","t","l","e","d">>)
         /\ r[AuthorKey] = TextOf(IF AuthorKey \in DOMAIN given
                                  THEN given[AuthorKey] ELSE <<"A","n","o","n","y","m","o","u","s">>)
         /\ IF DateKey \in DOMAIN given THEN r[DateKey] = TextOf(given[DateKey])
            ELSE r[DateKey] \in {TextOf(d) : d \in Dates}

\* C7: for a document that is one fenced code block with inner text code,
\* the final content with its tags stripped is code, trimmed.
CodeBlockTextSurvives ==
  \A c \in DOMAIN call :
    (call[c].op = "parse" /\ call[c].pc = "returned") =>
      \A code \in CodeTexts :
        call[c].rawContent = StringValue(Fenced(<<>>, code)) =>
          StripTags(call[c].result.content) = trim(code)

\* C9: a prose line, alone or right after a heading line, is wrapped in a
\* paragraph element that holds its bold and italic elements.
ProseLineIsParagraph ==
  \A c \in DOMAIN call :
    (call[c].op = "parse" /\ call[c].pc = "returned") =>
      \A prose \in ProseLines, before \in { <<>>, <<"#"," ","H","i","\n">> } :
        call[c].rawContent = StringValue(before \o prose) =>
          IndexOf(ParagraphElement(parseFormatting(prose)), call[c].result.content, 1) > 0

-----------------------------------------------------------------------------
(* Two calls of parse on one instance, their stages interleaved.           *)

ConcurrentArguments ==
  { StringValue(<<"-","-","-","\n","t","a","g","s",":"," ","a",","," ","b","\n","-","-","-","\n","-"," ","a","\n","1","."," ","b">>),
    StringValue(<<"x"," ","<","p","r","e","v","i","e","w",">","*","p","*","<","/","p","r","e","v","i","e","w",">"," ","y"," ","<","p","r","e","v","i","e","w",">","q","<","/","p","r","e","v","i","e","w",">">>),
    StringValue(<<"#"," ","H","i","\n","*","*","b","o","l","d","*","*"," ","a","n","d"," ","BACKTICK","c","<","d","BACKTICK">>),
    StringValue(<<"-"," ","a","\n","-"," ","b","\n","\n","[","t","]","(","u",")">>),
    Undefined }

InitConcurrent ==
  /\ InitInstance
  /\ \E a, b \in ConcurrentArguments :
       call = [c \in {1, 2} |-> NewParseCall(IF c = 1 THEN a ELSE b)]

SpecConcurrent == InitConcurrent /\ [][Next]_vars

\* C10: no stage of any call writes the instance, and what a call returns
\* or throws is what parse gives for its argument alone on a fresh instance
\* (for some date of the call).
ParseCallsIndependent ==
  /\ htmlEntities = HtmlEntityTable
  /\ allowedTags = AllowedTagSet
  /\ patterns = PatternTable
  /\ \A c \in DOMAIN call :
       /\ call[c].pc = "threw" =>
            call[c].error = parse(HtmlEntityTable, call[c].rawContent, <<>>).error
       /\ call[c].pc = "returned" =>
            \E today \in Dates :
              call[c].result = parse(HtmlEntityTable, call[c].rawContent, today).result

\* call 1 has returned a list document while call 2, on another document,
\* is between two stages
ReturnedWhileOtherInFlight ==
  /\ DOMAIN call = {1, 2}
  /\ call[1].pc = "returned"
  /\ call[1].rawContent = StringValue(<<"-","-","-","\n","t","a","g","s",":"," ","a",","," ","b","\n","-","-","-","\n","-"," ","a","\n","1","."," ","b">>)
  /\ call[2].pc = "parseLists"
  /\ call[2].rawContent = StringValue(<<"#"," ","H","i","\n","*","*","b","o","l","d","*","*"," ","a","n","d"," ","BACKTICK","c","<","d","BACKTICK">>)

-----------------------------------------------------------------------------
(* The metrics of a result.                                                *)

\* position i of s lies in a tag: a tag runs from the first < after the last
\* > before it (or after the start) to the next >
InTag(s, i) ==
  /\ \E k \in i..Len(s) : s[k] = ">" /\ \A m \in i..(k - 1) : s[m] # ">"
  /\ \E j \in 1..i : s[j] = "<" /\ \A m \in j..(i - 1) : s[m] # ">"

\* the characters of s outside every tag, in order
TextLeft(s) ==
  LET marked == [i \in 1..Len(s) |-> IF InTag(s, i) THEN "" ELSE s[i]]
  IN SelectSeq(marked, LAMBDA ch : ch # "")

\* where the words of s start: a non-blank character at the start or after a
\* blank one
WordStarts(s) ==
  {i \in 1..Len(s) : ~IsSpace(s[i]) /\ (i = 1 \/ IsSpace(s[i - 1]))}

\* the least whole number of times d that covers n
Ceiling(n, d) == CHOOSE q \in 0..n : q * d >= n /\ (q = 0 \/ (q - 1) * d < n)

\* C11: in every result, wordCount is a natural number, the number of
\* blank-separated words left when the tags are taken out of the result's
\* content (0 when nothing is left), and estimatedReadTime is the larger of 1
\* and the ceiling of wordCount / 200, so at least 1.
WordCountAndReadTime ==
  \A c \in DOMAIN call :
    (call[c].op = "parse" /\ call[c].pc = "returned") =>
      LET r == call[c].result
          words == Cardinality(WordStarts(TextLeft(r.content)))
          minutes == Ceiling(r.wordCount, 200)
      IN /\ r.wordCount \in Nat
         /\ r.wordCount = words
         /\ TextLeft(r.content) = <<>> => r.wordCount = 0
         /\ r.estimatedReadTime = IF minutes > 1 THEN minutes ELSE 1
         /\ r.estimatedReadTime >= 1

\* a call has returned a result of more than 200 words, whose reading time
\* is above the minimum
ReadTimeAboveMinimum ==
  \E c \in DOMAIN call :
    /\ call[c].op = "parse"
    /\ call[c].pc = "returned"
    /\ call[c].result.wordCount > 200
    /\ call[c].result.estimatedReadTime > 1

=============================================================================
